---- MODULE Spec2Model ----
(***************************************************************************)
(* A model of the go.airbrake client (src/airbrake.go).                    *)
(*                                                                         *)
(* One Brake is shared by a set of goroutines ("callers").  Every caller   *)
(* runs one public operation at a time; the body of each Go function is    *)
(* an action, and the goroutine's call stack is part of the state because  *)
(* processNotice walks it with runtime.Caller.                             *)
(*                                                                         *)
(* Strings are sequences of tokens, so that formatting, parsing and        *)
(* concatenation are computed and not assumed.                             *)
(***************************************************************************)
EXTENDS Integers, Sequences, FiniteSets, TLC

\* ------------------------------------------------------------------ bounds
\* Number of public operations the application starts in one behaviour.
MaxOps == 2
\* Number of goroutines sharing the Brake in the concurrent specification.
NumCallers == 2
\* Longest call stack walked in the stack-walk specification.
MaxStack == 4

\* --------------------------------------------------------------- strings
Digits == <<"0", "1", "2", "3", "4", "5", "6", "7", "8", "9">>

DigitVal(c) == CHOOSE d \in 0..9 : Digits[d + 1] = c

IsDigit(c) == \E d \in 0..9 : Digits[d + 1] = c

RECURSIVE Itoa(_)
\* decimal text of a natural number (fmt %d / strconv.FormatUint)
Itoa(n) == IF n < 10 THEN <<Digits[n + 1]>>
           ELSE Itoa(n \div 10) \o <<Digits[(n % 10) + 1]>>

RECURSIVE ParseUintFrom(_, _)
ParseUintFrom(s, acc) == IF s = <<>> THEN acc
                         ELSE ParseUintFrom(Tail(s), acc * 10 + DigitVal(Head(s)))

\* strconv.ParseUint as used by the `json:"id,string"` decoder: the text must
\* be a non-empty run of decimal digits.
ParseUintOK(s) == Len(s) > 0 /\ \A i \in 1..Len(s) : IsDigit(s[i])

ParseUint(s) == ParseUintFrom(s, 0)

\* strings.Contains on a tokenised string
Contains(s, tok) == \E i \in 1..Len(s) : s[i] = tok

RECURSIVE Sprintf(_, _)
\* fmt.Sprintf restricted to the %s verb: every "%s" token of the format is
\* replaced by the next value, surplus verbs print "%!s(MISSING)".
Sprintf(format, values) ==
    IF format = <<>> THEN <<>>
    ELSE IF Head(format) = "%s"
         THEN IF values = <<>>
              THEN <<"%!s(MISSING)">> \o Sprintf(Tail(format), values)
              ELSE Head(values) \o Sprintf(Tail(format), Tail(values))
         ELSE <<Head(format)>> \o Sprintf(Tail(format), values)

\* ------------------------------------------------------- panic values
NoFault  == [kind |-> "none",   s |-> "",          n |-> 0]
NilValue == [kind |-> "nil",    s |-> "",          n |-> 0]
StrValue == [kind |-> "string", s |-> "oh noes!",  n |-> 0]
IntValue == [kind |-> "int",    s |-> "",          n |-> 42]

\* values an application can pass to panic(); panic(nil) is legal Go
PanicValues == {NilValue, StrValue, IntValue}

\* fmt.Sprint of one interface value
Sprint(v) == CASE v.kind = "string" -> <<v.s>>
               [] v.kind = "int"    -> Itoa(v.n)
               [] OTHER             -> <<"<nil>">>

\* what the builtin recover() hands back: the value given to panic, which is
\* the nil interface both when nothing is in flight and after panic(nil)
RecoverValue(fault) == IF fault.kind \in {"none", "nil"} THEN NoFault ELSE fault

\* ------------------------------------------------------- stack frames
PkgPath == "github.com/GeertJohan/go."
BrakeMethod == "airbrake.(*Brake)."

FnProcessNotice == <<PkgPath, BrakeMethod, "processNotice">>
FnNotify        == <<PkgPath, BrakeMethod, "Notify">>
FnNotifyf       == <<PkgPath, BrakeMethod, "Notifyf">>
FnNotifyData    == <<PkgPath, BrakeMethod, "NotifyData">>
FnError         == <<PkgPath, BrakeMethod, "Error">>
FnRecover       == <<PkgPath, BrakeMethod, "Recover">>
FnSetUser       == <<PkgPath, BrakeMethod, "SetUserDetails">>
FnServeHTTP     == <<PkgPath, "airbrake.brakeHTTPHandler.", "ServeHTTP">>
FnHandlerFunc   == <<PkgPath, "airbrake.", "func.001">>
FnRuntimePanic  == <<"runtime.panic">>
FnPanicIndex    == <<"runtime.panic", "index">>
FnMain          == <<"main.", "main">>
FnDoStuff       == <<"main.", "doStuff">>
FnHandler       == <<"main.", "handler">>
FnServe         == <<"net/http.", "(*conn).serve">>

\* runtime.Caller + runtime.FuncForPC: file, line and function of a frame
Frame(fn) == [File |-> fn[1], Line |-> Len(fn), Function |-> fn]

\* the frame test of the stack walk (airbrake.go 183-189)
SkipLeading(funcName) ==
    \/ Contains(funcName, BrakeMethod)
    \/ funcName = FnRuntimePanic

RECURSIVE WalkFilterAll(_, _, _)
\* a walk that goes on filtering after the first accepted frame
WalkFilterAll(stk, skip, backtrace) ==
    IF skip + 1 > Len(stk) THEN backtrace
    ELSE LET funcName == stk[skip + 1] IN
         IF SkipLeading(funcName)
         THEN WalkFilterAll(stk, skip + 1, backtrace)
         ELSE WalkFilterAll(stk, skip + 1, Append(backtrace, Frame(funcName)))

RECURSIVE Walk(_, _, _)
\* the loop `for skip := 1; ; skip++` of processNotice: stk is the goroutine's
\* stack, innermost first, with processNotice itself at index 1, so that
\* runtime.Caller(skip) is stk[skip + 1]
Walk(stk, skip, backtrace) ==
    IF skip + 1 > Len(stk) THEN backtrace
    ELSE LET funcName == stk[skip + 1] IN
         IF Len(backtrace) = 0 /\ SkipLeading(funcName)
         THEN Walk(stk, skip + 1, backtrace)
         ELSE Walk(stk, skip + 1, Append(backtrace, Frame(funcName)))

\* ------------------------------------------------------- configuration
URLServiceNone    == <<>>
URLServiceAirbat  == <<"airbat">>
URLServiceTinyurl == <<"tinyurl">>

URLServices == {URLServiceNone, URLServiceAirbat, URLServiceTinyurl}

\* a Config; the io.Writer fields are modelled by whether a writer is set
MkConfig(svc, silent, logw, dout, din) ==
    [AppVersion |-> <<"4.2">>, AppURL |-> <<"http://app/">>,
     UserID |-> <<"42">>, UserName |-> <<"GeertJohan">>, UserEmail |-> <<"gj@x">>,
     DebugLogOut |-> dout, DebugLogIn |-> din,
     LogWriter |-> logw, LogStdoutSilent |-> silent,
     URLService |-> svc]

Configs == {MkConfig(svc, silent, logw, dout, din) :
              svc \in URLServices, silent \in BOOLEAN, logw \in BOOLEAN,
              dout \in BOOLEAN, din \in BOOLEAN}

ProjectID == <<"1234">>
APIKey    == <<"secret">>
EnvName   == <<"production">>

\* the package variable Notifier
Notifier == [Name |-> <<"go.airbrake">>, Version |-> <<"0.1">>,
             URL |-> <<"https://github.com/GeertJohan/go.airbrake">>]

airbrakeNoticeURL == <<"http://airbrake.io/api/v3/projects/", "%s", "/notices?key=", "%s">>

\* the Brake built by NewBrake(projectID, key, environment, config)
NewBrake(projectID, key, environment, cfg) ==
    [config    |-> cfg,
     context   |-> [OS |-> <<"linux", "_", "amd64">>, Language |-> <<"go1.1">>,
                    RootDirectory |-> <<"/srv/app">>,
                    Environment |-> environment,
                    Version |-> cfg.AppVersion, URL |-> cfg.AppURL,
                    UserID |-> cfg.UserID, UserName |-> cfg.UserName,
                    UserEmail |-> cfg.UserEmail],
     projectID |-> projectID,
     apiKey    |-> key,
     noticeURL |-> Sprintf(airbrakeNoticeURL, <<projectID, key>>)]

\* ------------------------------------------------------- notices
Unencodable == "<chan>"

NilVars   == [nil |-> TRUE,  kv |-> {}]
EmptyVars == [nil |-> FALSE, kv |-> {}]
FileVars  == [nil |-> FALSE, kv |-> {<<"filename", "foo.bar">>}]
PathVars  == [nil |-> FALSE, kv |-> {<<"GOPATH", "/go">>}]
ChanVars  == [nil |-> FALSE, kv |-> {<<"done", Unencodable>>}]

NoData == [Environment |-> NilVars, Session |-> NilVars, Params |-> NilVars]

\* the Data values an application passes to NotifyData
DataChoices ==
    {NoData,
     [Environment |-> NilVars,  Session |-> EmptyVars, Params |-> FileVars],
     [Environment |-> PathVars, Session |-> NilVars,   Params |-> NilVars],
     [Environment |-> NilVars,  Session |-> ChanVars,  Params |-> FileVars]}

NoNotice == [Notifier |-> "nil", Context |-> "nil", Errors |-> <<>>,
             Environment |-> NilVars, Session |-> NilVars, Params |-> NilVars]

\* a notice whose error entry has class and message the wrong way round
MkNoticeSwapped(errorClass, errorMessage, data) ==
    [Notifier |-> "nil", Context |-> "nil",
     Errors |-> <<[Type |-> errorMessage, Message |-> errorClass, Backtrace |-> <<>>]>>,
     Environment |-> data.Environment, Session |-> data.Session, Params |-> data.Params]

\* &notice{Errors: []*airError{{Type, Message}}, Environment, Session, Params}
MkNotice(errorClass, errorMessage, data) ==
    [Notifier |-> "nil", Context |-> "nil",
     Errors |-> <<[Type |-> errorClass, Message |-> errorMessage, Backtrace |-> <<>>]>>,
     Environment |-> data.Environment, Session |-> data.Session, Params |-> data.Params]

\* one notice object shared by all calls
AllocShared(p) == 1

\* the address of the notice a call allocates with &notice{...}: a fresh
\* object per call (a caller runs one call at a time)
Alloc(p) == p

\* ------------------------------------------------------- wire format
\* an omitempty that drops only nil maps, and sends empty ones as {}
OmitNil(key, vars) == IF vars.nil THEN {} ELSE {key}

\* `json:"...,omitempty"` on a map field: dropped when the map has no entry
OmitEmpty(key, vars) == IF vars.kv = {} THEN {} ELSE {key}

OmitEmptyStr(key, str) == IF str = <<>> THEN {} ELSE {key}

\* json encoding of a context: the user fields carry omitempty
MarshalContext(ctx) ==
    [keys |-> {"os", "language", "rootDirectory", "environment", "version", "url"}
              \cup OmitEmptyStr("userId", ctx.UserID)
              \cup OmitEmptyStr("userName", ctx.UserName)
              \cup OmitEmptyStr("userEmail", ctx.UserEmail),
     val  |-> ctx]

\* json can encode every value of a Vars map except channels and the like
Encodable(vars) == \A kv \in vars.kv : kv[2] # Unencodable

MarshalOK(not) ==
    Encodable(not.Environment) /\ Encodable(not.Session) /\ Encodable(not.Params)

\* json encoding of a notice; ctx is what not.Context points to
Marshal(not, ctx) ==
    [keys |-> {"notifier", "context", "errors"}
              \cup OmitEmpty("environment", not.Environment)
              \cup OmitEmpty("session", not.Session)
              \cup OmitEmpty("params", not.Params),
     notifier    |-> Notifier,
     context     |-> MarshalContext(ctx),
     errors      |-> not.Errors,
     environment |-> not.Environment.kv,
     session     |-> not.Session.kv,
     params      |-> not.Params.kv]

NoBody == [keys |-> {}, notifier |-> Notifier,
           context |-> [keys |-> {}, val |-> NewBrake(<<>>, <<>>, <<>>, MkConfig(<<>>, FALSE, FALSE, FALSE, FALSE)).context],
           errors |-> <<>>, environment |-> {}, session |-> {}, params |-> {}]

\* ------------------------------------------------------- responses
GoodBody   == [wellformed |-> TRUE,  id |-> <<"4", "2">>, url |-> <<"http://x/", "42">>]
OtherBody  == [wellformed |-> TRUE,  id |-> <<"7">>,      url |-> <<"http://x/", "7">>]
MovedBody  == [wellformed |-> TRUE,  id |-> <<"4", "2">>, url |-> <<"http://y/", "42">>]
BadIDBody  == [wellformed |-> TRUE,  id |-> <<"x">>,      url |-> <<"http://x/", "x">>]
JunkBody   == [wellformed |-> FALSE, id |-> <<>>,         url |-> <<>>]

StatusCreated == 201

Responses ==
    {[StatusCode |-> StatusCreated, Status |-> "201 Created", Body |-> b] :
        b \in {GoodBody, OtherBody, MovedBody, BadIDBody, JunkBody}}
    \cup {[StatusCode |-> 200, Status |-> "200 OK", Body |-> GoodBody],
          [StatusCode |-> 422, Status |-> "422 Unprocessable Entity", Body |-> JunkBody]}

NoResponse == [StatusCode |-> 0, Status |-> "", Body |-> JunkBody]

\* json.Decoder.Decode into noticeSuccess{ID uint64 `json:"id,string"`; URL}
DecodeOK(body) == body.wellformed /\ ParseUintOK(body.id)

Decode(body) == [nil |-> FALSE, ID |-> ParseUint(body.id), URL |-> body.url]

NoResult == [nil |-> TRUE, ID |-> 0, URL |-> <<>>]

NoErr == [nil |-> TRUE, text |-> <<>>]

\* fmt.Errorf
Errorf(format, values) == [nil |-> FALSE, text |-> Sprintf(format, values)]

\* ------------------------------------------------------- URL services
\* airbat.UintToAirbatURL: a short URL computed from the report id alone
UintToAirbatURL(id) == <<"http://airb.at/">> \o Itoa(id)

ShortURL == <<"http://tinyurl.com/", "abc">>

\* what shorturl.Shorten can hand back: a short URL, an empty answer, or an error
ShortenOutcomes == {[bytes |-> ShortURL, failed |-> FALSE],
                    [bytes |-> <<>>,     failed |-> FALSE],
                    [bytes |-> <<>>,     failed |-> TRUE]}

\* the line logged when sendNotice failed (203)
FailureLine(err) == Sprintf(<<"error processing notice: ", "%s", "\n">>, <<err.text>>)

\* a log line that leaves the URL out
URLLineBare(url) == <<"error ", "\n">>

\* the line logged when the notice was accepted (227)
URLLine(url) == Sprintf(<<"error ", "%s", "\n">>, <<url>>)

\* a transport that sends the request again
PostTwice(posts, req) == Append(Append(posts, req), req)

\* http.Post(b.noticeURL, "application/json", buf): one request goes out (244)
Post(posts, req) == Append(posts, req)

\* an airbat case without the fallback
AirbatCaseNoFallback(ns, encoded, encErr) == encoded

\* URLServiceAirbat case of processNotice (213-216)
AirbatCase(ns, encoded, encErr) == IF encErr THEN ns.URL ELSE encoded

\* default case of processNotice (218-223): the assignment on line 223 runs
\* after the fallback of line 221 and replaces it
DefaultCase(ns, urlBytes, shortErr) ==
    LET fallback == IF shortErr \/ Len(urlBytes) = 0 THEN ns.URL ELSE <<>>
        url      == urlBytes
    IN  url

\* ------------------------------------------------------- state
VARIABLES
    brake,     \* the shared *Brake: config, context, projectID, apiKey, noticeURL
    heap,      \* the notices allocated by the calls, by address
    call,      \* per goroutine: the operation in progress and what it did
    started,   \* number of public operations started so far
    world      \* what the application passes in and what the network answers

vars == <<brake, heap, call, started, world>>

Callers == DOMAIN call

\* a goroutine that is not inside the library
IdleCall ==
    [pc |-> "idle", entry |-> "none",
     stack |-> <<>>, app |-> <<>>,          \* goroutine stack, innermost first
     fault |-> NoFault, raised |-> NoFault, \* panic in flight / panic raised
     errorClass |-> <<>>, errorMessage |-> <<>>,
     format |-> <<>>, values |-> <<>>, data |-> NoData,
     user |-> <<<<>>, <<>>, <<>>>>,
     n |-> 0,                               \* address of the notice
     built |-> 0,                           \* notices built by this call
     buf |-> NoBody, resp |-> NoResponse,
     ns |-> NoResult, err |-> NoErr,        \* what sendNotice returned
     sent |-> FALSE,
     url |-> <<>>, msg |-> <<>>,
     encErr |-> FALSE, short |-> [bytes |-> <<>>, failed |-> FALSE],
     posts |-> <<>>,                        \* http.Post calls made
     shortens |-> 0,                        \* shorturl.Shorten calls made
     logs |-> <<>>,                         \* humanLog calls made
     stdout |-> <<>>, logWriter |-> <<>>,   \* what reached each log sink
     debugOut |-> <<>>, debugIn |-> <<>>,   \* what reached each debug sink
     handled |-> 0,                         \* runs of the wrapped handler
     trace |-> <<>>,                        \* steps of the pipeline taken
     outcome |-> "none"]

\* the (class, message) pairs the application reports
Reports == {<<<<"EOF">>, <<"could not read from file">>>>, <<<<"io">>, <<"disk full">>>>}
Formats  == {<<"could not read from file ", "%s">>}
ValueLists == {<<<<"foo.bar">>>>, <<>>}
UserDetails == {<<<<"7">>, <<"Ann">>, <<"ann@x">>>>, <<<<>>, <<>>, <<>>>>}

\* application stacks from which the library is entered
AppStacks  == {<<FnMain>>, <<FnDoStuff, FnMain>>}
\* application stacks that are unwinding from a panic
PanicStacks == {<<FnDoStuff, FnMain>>, <<FnPanicIndex, FnDoStuff, FnMain>>}
ServerStack == <<FnServe>>

Init ==
    /\ brake \in {NewBrake(ProjectID, APIKey, EnvName, cfg) : cfg \in Configs}
    /\ heap = [a \in 1..NumCallers |-> NoNotice]
    /\ call = [p \in {1} |-> IdleCall]
    /\ started = 0
    /\ world = [reports |-> Reports, stacks |-> AppStacks, users |-> UserDetails,
                responses |-> Responses, unreachable |-> BOOLEAN]

\* a goroutine that has just entered the library through fn, called from app
Fresh(entry, fn, app) ==
    [IdleCall EXCEPT !.pc = entry, !.entry = entry,
                     !.stack = <<fn>> \o app, !.app = app]

\* the application starts a public operation
Enter(p, c) ==
    /\ call[p].pc \in {"idle", "done"}
    /\ started < MaxOps
    /\ started' = started + 1
    /\ call' = [call EXCEPT ![p] = c]
    /\ UNCHANGED <<brake, heap, world>>

\* brake.Notify(class, message) in application code
CallNotify(p) ==
    \E r \in world.reports, app \in world.stacks :
        Enter(p, [Fresh("Notify", FnNotify, app) EXCEPT
                     !.errorClass = r[1], !.errorMessage = r[2]])

\* brake.Notifyf(class, format, values...) in application code
CallNotifyf(p) ==
    \E r \in world.reports, f \in Formats, v \in ValueLists :
        Enter(p, [Fresh("Notifyf", FnNotifyf, <<FnMain>>) EXCEPT
                     !.errorClass = r[1], !.format = f, !.values = v])

\* brake.NotifyData(class, message, data) in application code
CallNotifyData(p) ==
    \E r \in world.reports, d \in DataChoices :
        Enter(p, [Fresh("NotifyData", FnNotifyData, <<FnMain>>) EXCEPT
                     !.errorClass = r[1], !.errorMessage = r[2], !.data = d])

\* brake.SetUserDetails(id, name, email) in application code
CallSetUserDetails(p) ==
    \E u \in world.users :
        Enter(p, [Fresh("SetUserDetails", FnSetUser, <<FnMain>>) EXCEPT !.user = u])

\* an application function that did `defer brake.Recover()` comes to its end,
\* either by returning or by a panic raised in it or below it
CallRecover(p) ==
    \/ \E app \in world.stacks :
          Enter(p, Fresh("Recover", FnRecover, app))
    \/ \E v \in PanicValues, stk \in PanicStacks :
          Enter(p, [Fresh("Recover", FnRecover, <<FnRuntimePanic>> \o stk) EXCEPT
                       !.fault = v, !.raised = v, !.app = <<FnMain>>])

\* the serving loop calls the handler returned by WrapHTTPHandler
CallServeHTTP(p) ==
    Enter(p, Fresh("ServeHTTP", FnServeHTTP, ServerStack))

\* the serving loop calls the function returned by WrapHTTPHandlerFunc
CallHandlerFunc(p) ==
    Enter(p, Fresh("HandlerFunc", FnHandlerFunc, ServerStack))

\* ------------------------------------------------------- the library
Step(p, name) == Append(call[p].trace, name)

\* a SetUserDetails that replaces the three fields in one indivisible step
SetUserDetailsAtomic(p) ==
    /\ call[p].pc = "SetUserDetails"
    /\ brake' = [brake EXCEPT !.context.UserID = call[p].user[1],
                              !.context.UserName = call[p].user[2],
                              !.context.UserEmail = call[p].user[3]]
    /\ call' = [call EXCEPT ![p].pc = "return"]
    /\ UNCHANGED <<heap, started, world>>

\* Brake.SetUserDetails: three separate stores into the live context
SetUserDetails(p) ==
    /\ call[p].pc = "SetUserDetails"
    /\ brake' = [brake EXCEPT !.context.UserID = call[p].user[1]]
    /\ call' = [call EXCEPT ![p].pc = "SetUserName"]
    /\ UNCHANGED <<heap, started, world>>

SetUserName(p) ==
    /\ call[p].pc = "SetUserName"
    /\ brake' = [brake EXCEPT !.context.UserName = call[p].user[2]]
    /\ call' = [call EXCEPT ![p].pc = "SetUserEmail"]
    /\ UNCHANGED <<heap, started, world>>

\* a last store that lands in the context's URL field
SetUserEmailIntoURL(p) ==
    /\ call[p].pc = "SetUserEmail"
    /\ brake' = [brake EXCEPT !.context.URL = call[p].user[3]]
    /\ call' = [call EXCEPT ![p].pc = "return"]
    /\ UNCHANGED <<heap, started, world>>

SetUserEmail(p) ==
    /\ call[p].pc = "SetUserEmail"
    /\ brake' = [brake EXCEPT !.context.UserEmail = call[p].user[3]]
    /\ call' = [call EXCEPT ![p].pc = "return"]
    /\ UNCHANGED <<heap, started, world>>

\* Brake.Notify: build the notice, hand it to processNotice
Notify(p) ==
    /\ call[p].pc = "Notify"
    /\ heap' = [heap EXCEPT ![Alloc(p)] =
                   MkNotice(call[p].errorClass, call[p].errorMessage, NoData)]
    /\ call' = [call EXCEPT ![p].pc = "processNotice",
                            ![p].n = Alloc(p),
                            ![p].built = @ + 1,
                            ![p].stack = <<FnProcessNotice>> \o @,
                            ![p].trace = Step(p, "build")]
    /\ UNCHANGED <<brake, started, world>>

\* Brake.NotifyData: build the notice with the data maps
NotifyData(p) ==
    /\ call[p].pc = "NotifyData"
    /\ heap' = [heap EXCEPT ![Alloc(p)] =
                   MkNotice(call[p].errorClass, call[p].errorMessage, call[p].data)]
    /\ call' = [call EXCEPT ![p].pc = "processNotice",
                            ![p].n = Alloc(p),
                            ![p].built = @ + 1,
                            ![p].stack = <<FnProcessNotice>> \o @,
                            ![p].trace = Step(p, "build")]
    /\ UNCHANGED <<brake, started, world>>

\* Brake.Notifyf: b.Error(errorClass, fmt.Sprintf(format, values...))
Notifyf(p) ==
    /\ call[p].pc = "Notifyf"
    /\ call' = [call EXCEPT ![p].pc = "Error",
                            ![p].errorMessage = Sprintf(call[p].format, call[p].values),
                            ![p].stack = <<FnError>> \o @]
    /\ UNCHANGED <<brake, heap, started, world>>

\* Brake.Error, the older name of Notify that Notifyf and Recover still call
Error(p) ==
    /\ call[p].pc = "Error"
    /\ call' = [call EXCEPT ![p].pc = "Notify",
                            ![p].stack = <<FnNotify>> \o @]
    /\ UNCHANGED <<brake, heap, started, world>>

\* a Recover that reports whatever recover() returned
ReportableAlways(r) == TRUE

\* the r != nil test of Recover
Reportable(r) == r # NoFault

\* Brake.Recover, running as a deferred call
Recover(p) ==
    /\ call[p].pc = "Recover"
    /\ LET r == RecoverValue(call[p].fault) IN
         call' = [call EXCEPT
                    ![p].fault = NoFault,
                    ![p].pc = IF Reportable(r) THEN "Error" ELSE "return",
                    ![p].errorClass = IF Reportable(r) THEN <<"panic">> ELSE @,
                    ![p].errorMessage = IF Reportable(r) THEN Sprint(r) ELSE @,
                    ![p].stack = IF Reportable(r) THEN <<FnError>> \o @ ELSE @]
    /\ UNCHANGED <<brake, heap, started, world>>

\* the body shared by both adapters: defer Recover, run the wrapped handler;
\* the handler returns or panics, and the deferred Recover runs
RunHandler(p) ==
    \E v \in PanicValues \cup {NoFault} :
        call' = [call EXCEPT
                   ![p].pc = "Recover",
                   ![p].handled = @ + 1,
                   ![p].fault = v, ![p].raised = v,
                   ![p].stack = IF v = NoFault THEN <<FnRecover>> \o @
                                ELSE <<FnRecover, FnRuntimePanic, FnHandler>> \o @]

\* brakeHTTPHandler.ServeHTTP
ServeHTTP(p) ==
    /\ call[p].pc = "ServeHTTP"
    /\ RunHandler(p)
    /\ UNCHANGED <<brake, heap, started, world>>

\* the closure returned by WrapHTTPHandlerFunc
HandlerFunc(p) ==
    /\ call[p].pc = "HandlerFunc"
    /\ RunHandler(p)
    /\ UNCHANGED <<brake, heap, started, world>>

\* processNotice up to the call of sendNotice (157-198): attach the notifier
\* and the live context, walk the stack
processNotice(p) ==
    /\ call[p].pc = "processNotice"
    /\ heap' = [heap EXCEPT ![call[p].n] =
                   [@ EXCEPT !.Notifier = "Notifier",
                             !.Context = "b.context",
                             !.Errors[1].Backtrace = Walk(call[p].stack, 1, @)]]
    /\ call' = [call EXCEPT ![p].pc = "sendNotice",
                            ![p].trace = Step(p, "stack")]
    /\ UNCHANGED <<brake, started, world>>

\* sendNotice, the encoding part (230-241): the notice is encoded into the
\* buffer and mirrored to DebugLogOut; an unencodable value or a failing
\* debug writer ends the send before any request is made
sendNotice(p) ==
    /\ call[p].pc = "sendNotice"
    /\ LET not == heap[call[p].n]
           wire == Marshal(not, brake.context)
       IN \E writeFails \in IF brake.config.DebugLogOut /\ MarshalOK(not)
                            THEN BOOLEAN ELSE {FALSE} :
            IF MarshalOK(not) /\ ~writeFails
            THEN call' = [call EXCEPT
                            ![p].pc = "httpPost",
                            ![p].buf = wire,
                            ![p].debugOut = IF brake.config.DebugLogOut
                                            THEN Append(@, wire) ELSE @,
                            ![p].trace = Step(p, "encode")]
            ELSE call' = [call EXCEPT
                            ![p].pc = "resolveURL",
                            ![p].ns = NoResult,
                            ![p].err = Errorf(<<"error encoding airbrake notice: ", "%s", "\n">>,
                                              <<<<"json: unsupported value">>>>),
                            ![p].trace = Step(p, "encode")]
    /\ UNCHANGED <<brake, heap, started, world>>

\* a response check that takes every 2xx status for success
CheckResponseAny2xx(resp) ==
    IF resp.StatusCode \in 200..299 /\ DecodeOK(resp.Body)
    THEN [ns |-> Decode(resp.Body), err |-> NoErr]
    ELSE [ns |-> NoResult,
          err |-> Errorf(<<"unexpected status from api: '", "%s", "'">>, <<<<resp.Status>>>>)]

\* what sendNotice returns for a response (249-266)
CheckResponse(resp) ==
    IF resp.StatusCode = StatusCreated
    THEN IF DecodeOK(resp.Body)
         THEN [ns |-> Decode(resp.Body), err |-> NoErr]
         ELSE [ns |-> NoResult,
               err |-> Errorf(<<"error decoding response json: ", "%s", "\n">>,
                              <<<<"invalid character">>>>)]
    ELSE [ns |-> NoResult,
          err |-> Errorf(<<"unexpected status from api: '", "%s", "'">>, <<<<resp.Status>>>>)]

\* whether sendNotice reads the response body (250-259)
ReadsBody(resp) == resp.StatusCode = StatusCreated

\* sendNotice, the request part (243-266): one http.Post, then the response
\* is classified; the body of a 201 is read through the DebugLogIn tee
httpPost(p) ==
    /\ call[p].pc = "httpPost"
    /\ LET req == [url |-> brake.noticeURL, contentType |-> "application/json",
                   body |-> call[p].buf]
       IN \/ /\ TRUE \in world.unreachable
             /\ call' = [call EXCEPT
                        ![p].pc = "resolveURL",
                        ![p].posts = Post(@, req),
                        ![p].ns = NoResult,
                        ![p].err = Errorf(<<"error making request to airbake service: ", "%s", "\n">>,
                                          <<<<"dial tcp: connection refused">>>>),
                        ![p].trace = Step(p, "post")]
          \/ \E resp \in world.responses :
               call' = [call EXCEPT
                          ![p].pc = "resolveURL",
                          ![p].posts = Post(@, req),
                          ![p].resp = resp,
                          ![p].ns = CheckResponse(resp).ns,
                          ![p].err = CheckResponse(resp).err,
                          ![p].debugIn = IF ReadsBody(resp) /\ brake.config.DebugLogIn
                                         THEN Append(@, resp.Body) ELSE @,
                          ![p].trace = Step(p, "post")]
    /\ UNCHANGED <<brake, heap, started, world>>

\* an error test that never sees a failure
FailedNever(err) == FALSE

\* the `if err != nil` after sendNotice (202)
Failed(err) == ~err.nil

\* processNotice after sendNotice returned (201-227): a failure becomes the
\* failure line; otherwise the URL is chosen by config.URLService
resolveURL(p) ==
    /\ call[p].pc = "resolveURL"
    /\ LET ns == call[p].ns IN
       IF Failed(call[p].err)
       THEN call' = [call EXCEPT
                       ![p].pc = "humanLog",
                       ![p].msg = FailureLine(call[p].err)]
       ELSE IF brake.config.URLService = URLServiceNone
       THEN call' = [call EXCEPT
                       ![p].pc = "humanLog",
                       ![p].sent = TRUE,
                       ![p].url = ns.URL,
                       ![p].msg = URLLine(ns.URL),
                       ![p].trace = Step(p, "resolve")]
       ELSE IF brake.config.URLService = URLServiceAirbat
       THEN \E encErr \in BOOLEAN :
              LET encoded == IF encErr THEN <<>> ELSE UintToAirbatURL(ns.ID)
                  url == AirbatCase(ns, encoded, encErr)
              IN call' = [call EXCEPT
                            ![p].pc = "humanLog",
                            ![p].sent = TRUE,
                            ![p].encErr = encErr,
                            ![p].url = url,
                            ![p].msg = URLLine(url),
                            ![p].trace = Step(p, "resolve")]
       ELSE \E short \in ShortenOutcomes :
              LET url == DefaultCase(ns, short.bytes, short.failed)
              IN call' = [call EXCEPT
                            ![p].pc = "humanLog",
                            ![p].sent = TRUE,
                            ![p].shortens = @ + 1,
                            ![p].short = short,
                            ![p].url = url,
                            ![p].msg = URLLine(url),
                            ![p].trace = Step(p, "resolve")]
    /\ UNCHANGED <<brake, heap, started, world>>

\* Brake.humanLog: the line goes to stdout unless silenced, and to LogWriter
\* when one is set
humanLog(p) ==
    /\ call[p].pc = "humanLog"
    /\ call' = [call EXCEPT
                  ![p].pc = "return",
                  ![p].logs = Append(@, call[p].msg),
                  ![p].stdout = IF ~brake.config.LogStdoutSilent
                                THEN Append(@, call[p].msg) ELSE @,
                  ![p].logWriter = IF brake.config.LogWriter
                                   THEN Append(@, call[p].msg) ELSE @,
                  ![p].trace = Step(p, "log")]
    /\ UNCHANGED <<brake, heap, started, world>>

\* the library returns to the application: normally when no panic is in
\* flight any more, otherwise the panic goes on unwinding the caller
Return(p) ==
    /\ call[p].pc = "return"
    /\ call' = [call EXCEPT
                  ![p].pc = "done",
                  ![p].stack = call[p].app,
                  ![p].outcome = IF call[p].fault = NoFault THEN "normal" ELSE "panicked"]
    /\ UNCHANGED <<brake, heap, started, world>>

\* ------------------------------------------------------- specifications
Pipeline(p) ==
    \/ Notify(p) \/ processNotice(p) \/ sendNotice(p) \/ httpPost(p)
    \/ resolveURL(p) \/ humanLog(p) \/ Return(p)
    \/ SetUserDetails(p) \/ SetUserName(p) \/ SetUserEmail(p)

Next ==
    \E p \in Callers :
        \/ CallNotify(p) \/ CallNotifyf(p) \/ CallNotifyData(p) \/ CallRecover(p)
        \/ CallServeHTTP(p) \/ CallHandlerFunc(p) \/ CallSetUserDetails(p)
        \/ Notifyf(p) \/ NotifyData(p) \/ Error(p) \/ Recover(p)
        \/ ServeHTTP(p) \/ HandlerFunc(p)
        \/ Pipeline(p)

\* one goroutine using the Brake, under every configuration
Spec == Init /\ [][Next]_vars

\* several goroutines reporting and updating the user details at once
InitConc ==
    /\ brake = NewBrake(ProjectID, APIKey, EnvName,
                        MkConfig(URLServiceNone, FALSE, FALSE, TRUE, FALSE))
    /\ heap = [a \in 1..NumCallers |-> NoNotice]
    /\ call = [p \in 1..NumCallers |-> IdleCall]
    /\ started = 0
    /\ world = [reports |-> Reports, stacks |-> {<<FnMain>>}, users |-> {<<<<"7">>, <<"Ann">>, <<"ann@x">>>>},
                responses |-> {r \in Responses : r.Body = GoodBody}, unreachable |-> {FALSE}]

NextConc ==
    \E p \in Callers :
        \/ CallNotify(p) \/ CallSetUserDetails(p)
        \/ Pipeline(p)

SpecConc == InitConc /\ [][NextConc]_vars

\* the stack walk on its own, over every stack of up to MaxStack callers
WalkFrames == {FnNotify, FnRecover, FnRuntimePanic, FnPanicIndex, FnDoStuff, FnServeHTTP}

Stacks == UNION {[1..n -> WalkFrames] : n \in 0..MaxStack}

InitWalk ==
    /\ brake = NewBrake(ProjectID, APIKey, EnvName,
                        MkConfig(URLServiceNone, FALSE, FALSE, FALSE, FALSE))
    /\ heap = [a \in 1..NumCallers |-> IF a = 1 THEN MkNotice(<<"EOF">>, <<"disk full">>, NoData)
                                         ELSE NoNotice]
    /\ \E stk \in Stacks :
          call = [p \in {1} |-> [IdleCall EXCEPT !.pc = "processNotice", !.entry = "Notify",
                                                 !.n = 1, !.built = 1,
                                                 !.stack = <<FnProcessNotice>> \o stk]]
    /\ started = 1
    /\ world = [reports |-> Reports, stacks |-> AppStacks, users |-> UserDetails,
                responses |-> Responses, unreachable |-> BOOLEAN]

NextWalk == \E p \in Callers : processNotice(p)

SpecWalk == InitWalk /\ [][NextWalk]_vars

\* ------------------------------------------------------- properties
Done(p) == call[p].pc = "done"

ReportEntries == {"Notify", "Notifyf", "NotifyData"}

\* the call is past sendNotice: its result and error are what sendNotice returned
Returned(p) == call[p].built = 1 /\ call[p].pc \in {"resolveURL", "humanLog", "return", "done"}

\* the notice the call built
NoticeOf(p) == heap[call[p].n]

\* the tokens a report URL is made of, canonical or shortened
URLTokens == {"http://x/", "http://y/", "http://tinyurl.com/", "http://airb.at/"}

EncodingFailed(p) ==
    ~call[p].err.nil /\ call[p].err.text[1] = "error encoding airbrake notice: "

\* C1: a deferred Recover that runs while a value V is being raised produces
\* exactly one report, of class "panic" and with the string form of V as its
\* message, and its caller returns normally -- for every V.
C1_RecoverReportsEveryFault ==
    \A p \in Callers :
        (Done(p) /\ call[p].entry = "Recover" /\ call[p].raised # NoFault)
        => /\ call[p].built = 1
           /\ NoticeOf(p).Errors[1].Type = <<"panic">>
           /\ NoticeOf(p).Errors[1].Message = Sprint(call[p].raised)
           /\ call[p].outcome = "normal"

C3_ExactlyOneRequest ==
    \A p \in Callers :
        (Done(p) /\ call[p].entry \in ReportEntries) => Len(call[p].posts) = 1

\* C3 amended: a report call never makes more than one HTTP request; it makes
\* exactly one when the notice could be encoded and none when encoding failed.
C3_AtMostOneRequest ==
    \A p \in Callers :
        /\ Len(call[p].posts) <= 1
        /\ (Done(p) /\ call[p].built = 1)
           => (Len(call[p].posts) = 0 <=> EncodingFailed(p))

\* C3 witness: a finished report whose request failed at the network level
C3_Witness ==
    \E p \in Callers :
        /\ Done(p) /\ call[p].entry \in ReportEntries
        /\ Len(call[p].posts) = 1 /\ call[p].resp = NoResponse /\ ~call[p].err.nil

\* C4: sendNotice returns exactly one of result and error; a result exactly
\* when the status is 201 and the body decodes, and then the decoded id and
\* url; a decode error for an undecodable 201 body; for any other status an
\* error carrying the status line, with the body left unread (nothing
\* reaches DebugLogIn); for a failed request an error carrying the cause.
C4_SendResult ==
    \A p \in Callers :
        Returned(p) =>
        LET c == call[p]
            body == c.resp.Body
            decodes == body.wellformed /\ ParseUintOK(body.id)
        IN /\ c.ns.nil <=> ~c.err.nil
           /\ ~c.ns.nil <=> (Len(c.posts) = 1 /\ c.resp.StatusCode = 201 /\ decodes)
           /\ ~c.ns.nil => c.ns = [nil |-> FALSE, ID |-> ParseUint(body.id), URL |-> body.url]
           /\ (~c.ns.nil /\ body = GoodBody)
                => c.ns = [nil |-> FALSE, ID |-> 42, URL |-> <<"http://x/", "42">>]
           /\ (Len(c.posts) = 1 /\ c.resp.StatusCode = 201 /\ ~decodes)
                => c.err.text[1] = "error decoding response json: "
           /\ (Len(c.posts) = 1 /\ c.resp # NoResponse /\ c.resp.StatusCode # 201)
                => /\ c.err.text = <<"unexpected status from api: '", c.resp.Status, "'">>
                   /\ c.debugIn = <<>>
           /\ (Len(c.posts) = 1 /\ c.resp = NoResponse)
                => c.err.text = <<"error making request to airbake service: ",
                                  "dial tcp: connection refused", "\n">>
           /\ c.debugIn = IF brake.config.DebugLogIn /\ c.resp.StatusCode = 201
                          THEN <<body>> ELSE <<>>

\* C4 witness: a 422 answer with a debug-in writer configured
C4_Witness ==
    \E p \in Callers :
        /\ Returned(p) /\ call[p].resp.StatusCode = 422
        /\ brake.config.DebugLogIn /\ call[p].ns.nil

\* C5 as stated: with an external shortening service, the logged URL is the
\* canonical URL when shortening failed or returned nothing, and the short
\* URL otherwise.
C5_ShortenFallback ==
    \A p \in Callers :
        (Done(p) /\ call[p].sent /\ brake.config.URLService = <<"tinyurl">>)
        => LET expected == IF call[p].short.failed \/ call[p].short.bytes = <<>>
                           THEN call[p].ns.URL ELSE call[p].short.bytes
           IN call[p].logs = << <<"error ">> \o expected \o <<"\n">> >>

\* C6: with the airbat strategy the resolved URL is the canonical URL when the
\* encoder fails and the encoding of the report id when it succeeds, whatever
\* the canonical URL is; resolving makes no network call (the only request of
\* the call is the POST of the notice).
C6_AirbatFallback ==
    \A p \in Callers :
        (call[p].sent /\ brake.config.URLService = <<"airbat">>)
        => /\ call[p].shortens = 0
           /\ Len(call[p].posts) = 1
           /\ call[p].url = IF call[p].encErr THEN call[p].ns.URL
                            ELSE <<"http://airb.at/">> \o Itoa(call[p].ns.ID)
           /\ Done(p) => call[p].logs = << <<"error ">> \o call[p].url \o <<"\n">> >>

\* C6 witness: the encoder failed and the canonical URL was logged
C6_Witness ==
    \E p \in Callers :
        /\ Done(p) /\ call[p].sent /\ brake.config.URLService = <<"airbat">>
        /\ call[p].encErr /\ call[p].url = <<"http://y/", "42">>

NoEffects(c) ==
    /\ c.built = 0 /\ c.posts = <<>> /\ c.shortens = 0
    /\ c.logs = <<>> /\ c.stdout = <<>> /\ c.logWriter = <<>>
    /\ c.debugOut = <<>> /\ c.debugIn = <<>>

\* C7: Recover with no fault in flight does nothing: the step only returns,
\* leaving the Brake and every notice as they were, and the whole call has
\* built no notice, made no request and written no line.
C7_RecoverNoFaultIsNoop ==
    /\ [](\A p \in Callers :
            (call[p].entry = "Recover" /\ call[p].raised = NoFault)
            => NoEffects(call[p]) /\ call[p].pc \in {"Recover", "return", "done"})
    /\ [][\A p \in Callers :
            (call[p].pc = "Recover" /\ call[p].fault = NoFault /\ call'[p] # call[p])
            => /\ call'[p] = [call[p] EXCEPT !.pc = "return"]
               /\ brake' = brake
               /\ heap' = heap]_vars

\* C7 witness: a Recover that found nothing to recover has returned
C7_Witness ==
    \E p \in Callers :
        /\ Done(p) /\ call[p].entry = "Recover" /\ call[p].raised = NoFault
        /\ call[p].outcome = "normal"

\* C8 as stated: a wrapped handler runs exactly once per request; a fault it
\* raises is reported exactly once with class "panic" and does not escape;
\* without a fault nothing is reported.
C8_HandlerFaultReportedOnce ==
    \A p \in Callers :
        (Done(p) /\ call[p].entry \in {"ServeHTTP", "HandlerFunc"})
        => /\ call[p].handled = 1
           /\ call[p].outcome = "normal"
           /\ IF call[p].raised # NoFault
              THEN /\ call[p].built = 1
                   /\ NoticeOf(p).Errors[1].Type = <<"panic">>
                   /\ Len(call[p].logs) = 1
              ELSE NoEffects(call[p])

\* C9 as stated: every one of the concurrent reports builds one notice and
\* makes exactly one request, which carries the caller's class and message.
C9_OneRequestPerCall ==
    \A p \in Callers :
        (Done(p) /\ call[p].entry = "Notify")
        => /\ call[p].built = 1
           /\ Len(call[p].posts) = 1
           /\ call[p].posts[1].body.errors[1].Type = call[p].errorClass
           /\ call[p].posts[1].body.errors[1].Message = call[p].errorMessage

\* C9 amended: every one of the concurrent reports builds exactly one notice
\* of its own and makes at most one request -- exactly one unless encoding
\* the notice failed, and then none; a request carries exactly one error
\* entry, with the class and message passed to the call that made it.
C9_NoCrossContamination ==
    /\ \A p, q \in Callers :
          (p # q /\ call[p].n # 0 /\ call[q].n # 0) => call[p].n # call[q].n
    /\ \A p \in Callers :
          call[p].entry = "Notify"
          => /\ call[p].built <= 1
             /\ Len(call[p].posts) <= 1
             /\ Len(call[p].posts) = 1
                  => /\ Len(call[p].posts[1].body.errors) = 1
                     /\ call[p].posts[1].body.errors[1].Type = call[p].errorClass
                     /\ call[p].posts[1].body.errors[1].Message = call[p].errorMessage
             /\ Done(p) => /\ call[p].built = 1
                           /\ Len(call[p].posts) = 0 <=> EncodingFailed(p)

\* C9 witness: two reports of different classes are in flight together, both
\* with their request made
C9_Witness ==
    \E p, q \in Callers :
        /\ p # q
        /\ call[p].pc = "resolveURL" /\ call[q].pc = "resolveURL"
        /\ Len(call[p].posts) = 1 /\ Len(call[q].posts) = 1
        /\ call[p].errorClass # call[q].errorClass

\* a frame of one of the library's client methods, or the runtime's panic frame
LibraryOrPanic(fn) ==
    \/ \E i \in 1..Len(fn) : fn[i] = "airbrake.(*Brake)."
    \/ fn = <<"runtime.panic">>

\* length of the leading run of such frames
LeadingRun(stk) ==
    CHOOSE k \in 0..Len(stk) :
        /\ \A i \in 1..k : LibraryOrPanic(stk[i])
        /\ k = Len(stk) \/ ~LibraryOrPanic(stk[k + 1])

\* C10: the backtrace is the stack above processNotice, innermost first,
\* without its leading run of library-client and runtime-panic frames: the
\* first frame recorded is neither, all frames after it are recorded in
\* order and unfiltered, and nothing is recorded when no frame is accepted.
C10_BacktraceDropsLeadingRun ==
    \A p \in Callers :
        (call[p].built = 1 /\
         call[p].pc \in {"sendNotice", "httpPost", "resolveURL", "humanLog", "return"})
        => LET callers == Tail(call[p].stack)
               k  == LeadingRun(callers)
               bt == NoticeOf(p).Errors[1].Backtrace
           IN /\ Len(bt) = Len(callers) - k
              /\ \A i \in 1..Len(bt) :
                    bt[i] = [File |-> callers[k + i][1], Line |-> Len(callers[k + i]),
                             Function |-> callers[k + i]]
              /\ bt # <<>> => ~LibraryOrPanic(bt[1].Function)
              /\ (\A i \in 1..Len(callers) : LibraryOrPanic(callers[i])) => bt = <<>>

\* C10 witness: a walk that dropped two leading frames and then recorded an
\* application frame followed by a library frame
C10_Witness ==
    \E p \in Callers :
        /\ call[p].pc = "sendNotice"
        /\ Len(call[p].stack) = 5
        /\ LeadingRun(Tail(call[p].stack)) = 2
        /\ Len(NoticeOf(p).Errors[1].Backtrace) = 2
        /\ LibraryOrPanic(NoticeOf(p).Errors[1].Backtrace[2].Function)

DataKeys == {"environment", "session", "params"}

\* C11: NotifyData puts each map of its Data argument unchanged into the
\* notice; in the encoded payload each of the keys environment, session and
\* params is present, with exactly the entries supplied, if and only if its
\* map has an entry, each key independently of the other two; a notice built
\* without data carries none of the three keys.
C11_DataCopiedAndEmptyOmitted ==
    \A p \in Callers :
        (call[p].built = 1 /\ call[p].pc # "processNotice")
        => LET c == call[p]
               supplied == IF c.entry = "NotifyData" THEN c.data ELSE NoData
           IN /\ NoticeOf(p).Environment = supplied.Environment
              /\ NoticeOf(p).Session = supplied.Session
              /\ NoticeOf(p).Params = supplied.Params
              /\ c.buf # NoBody
                   => /\ ("environment" \in c.buf.keys) <=> (supplied.Environment.kv # {})
                      /\ ("session" \in c.buf.keys) <=> (supplied.Session.kv # {})
                      /\ ("params" \in c.buf.keys) <=> (supplied.Params.kv # {})
                      /\ c.buf.environment = supplied.Environment.kv
                      /\ c.buf.session = supplied.Session.kv
                      /\ c.buf.params = supplied.Params.kv
                      /\ c.entry # "NotifyData" => c.buf.keys \cap DataKeys = {}
              /\ \A i \in 1..Len(c.posts) : c.posts[i].body = c.buf

\* C11 witness: a NotifyData with only params filled in, session set but
\* empty and environment unset, was posted with params as its only data key
C11_Witness ==
    \E p \in Callers :
        /\ call[p].entry = "NotifyData" /\ Len(call[p].posts) = 1
        /\ call[p].data.Session = [nil |-> FALSE, kv |-> {}]
        /\ call[p].posts[1].body.keys \cap DataKeys = {"params"}
        /\ call[p].posts[1].body.params = {<<"filename", "foo.bar">>}

\* the message a report operation was asked to send: the message argument,
\* or for Notifyf the format filled in with the values
MessagePassed(c) == IF c.entry = "Notifyf" THEN Sprintf(c.format, c.values)
                    ELSE c.errorMessage

\* C12: a notice that Notify, Notifyf or NotifyData hands to sendNotice has
\* exactly one error entry, whose type is the class and whose message is the
\* (non-empty) message the caller passed; the same entry is what is encoded
\* and posted.
C12_SingleErrorEntry ==
    \A p \in Callers :
        (call[p].entry \in ReportEntries /\ call[p].built = 1
         /\ call[p].pc \in {"sendNotice", "httpPost", "resolveURL", "humanLog", "return", "done"})
        => LET c == call[p]
               errs == NoticeOf(p).Errors
           IN /\ Len(errs) = 1
              /\ errs[1].Type = c.errorClass
              /\ MessagePassed(c) # <<>>
              /\ errs[1].Message = MessagePassed(c)
              /\ \A i \in 1..Len(c.posts) :
                    /\ Len(c.posts[i].body.errors) = 1
                    /\ c.posts[i].body.errors[1].Type = c.errorClass
                    /\ c.posts[i].body.errors[1].Message = MessagePassed(c)

\* C12 witness: Notify("io", "disk full") was posted with that one entry
C12_Witness ==
    \E p \in Callers :
        /\ call[p].entry = "Notify" /\ Len(call[p].posts) = 1
        /\ call[p].errorClass = <<"io">>
        /\ call[p].posts[1].body.errors[1].Type = <<"io">>
        /\ call[p].posts[1].body.errors[1].Message = <<"disk full">>

\* the values a user field can be given: by the Config or by SetUserDetails
UserValues(i) ==
    {<<brake.config.UserID, brake.config.UserName, brake.config.UserEmail>>[i]}
    \cup {u[i] : u \in world.users}

\* C13: SetUserDetails stores its three arguments into the live context in
\* three separate steps, id then name then email, each leaving the rest of
\* the Brake alone, and other goroutines run between them; a notice holds
\* the pointer to that context, so what is encoded is the context as it is
\* when the notice is encoded.  Every user field sent is a value from the
\* Config or from a SetUserDetails call, but the three need not come from
\* the same one.
C13_UnsynchronisedUserUpdate ==
    /\ [](\A p \in Callers :
            /\ (call[p].built = 1 /\ call[p].pc # "processNotice")
                 => NoticeOf(p).Context = "b.context"
            /\ \A i \in 1..Len(call[p].posts) :
                 LET sent == call[p].posts[i].body.context.val IN
                   /\ sent.UserID \in UserValues(1)
                   /\ sent.UserName \in UserValues(2)
                   /\ sent.UserEmail \in UserValues(3))
    /\ [][\A p \in Callers :
            /\ (call[p].pc = "SetUserDetails" /\ call'[p] # call[p])
                 => /\ call'[p].pc = "SetUserName"
                    /\ brake' = [brake EXCEPT !.context.UserID = call[p].user[1]]
            /\ (call[p].pc = "SetUserName" /\ call'[p] # call[p])
                 => /\ call'[p].pc = "SetUserEmail"
                    /\ brake' = [brake EXCEPT !.context.UserName = call[p].user[2]]
            /\ (call[p].pc = "SetUserEmail" /\ call'[p] # call[p])
                 => /\ call'[p].pc = "return"
                    /\ brake' = [brake EXCEPT !.context.UserEmail = call[p].user[3]]
            /\ (call[p].pc = "sendNotice" /\ call'[p].pc = "httpPost")
                 => call'[p].buf.context.val = brake.context]_vars

\* C13 witness: with one Notify and one SetUserDetails("7", "Ann", "ann@x")
\* started on a Brake configured for user 42, the request carries the new
\* id together with the old name and email
C13_Witness ==
    \E p, q \in Callers :
        /\ p # q /\ started = 2
        /\ call[q].entry = "SetUserDetails" /\ call[q].user = <<<<"7">>, <<"Ann">>, <<"ann@x">>>>
        /\ call[p].entry = "Notify" /\ Len(call[p].posts) = 1
        /\ call[p].posts[1].body.context.val.UserID = <<"7">>
        /\ call[p].posts[1].body.context.val.UserName = <<"GeertJohan">>
        /\ call[p].posts[1].body.context.val.UserEmail = <<"gj@x">>

IsPrefix(s, t) == Len(s) <= Len(t) /\ \A i \in 1..Len(s) : s[i] = t[i]

\* the orders in which one call can go through its steps
StepOrders ==
    {<<"build", "stack", "encode", "post", "resolve", "log">>,
     <<"build", "stack", "encode", "post", "log">>,
     <<"build", "stack", "encode", "log">>}

\* C14: a call that builds a notice goes through build, stack walk,
\* encoding, request, URL resolution and log in that order, skipping only
\* what a failure cuts off: a request is made only with the stack walked and
\* the notice encoded; the URL is resolved, and the shortening service
\* called, only after a 201 answer was decoded and never after a failed
\* send; the log line is the last thing the call does.
C14_StepOrder ==
    /\ [](\A p \in Callers :
            call[p].built = 1
            => LET c == call[p]
                   resolved == \E i \in 1..Len(c.trace) : c.trace[i] = "resolve"
               IN /\ \E o \in StepOrders : IsPrefix(c.trace, o)
                  /\ Len(c.posts) > 0
                       => /\ c.buf # NoBody
                          /\ \A i \in 1..Len(c.posts) : c.posts[i].body = c.buf
                          /\ NoticeOf(p).Context = "b.context"
                  /\ (resolved \/ c.shortens > 0 \/ c.sent \/ c.url # <<>>)
                       => /\ resolved /\ c.err.nil /\ ~c.ns.nil
                          /\ Len(c.posts) = 1 /\ c.resp.StatusCode = 201
                  /\ c.logs # <<>>
                       => /\ c.pc \in {"return", "done"}
                          /\ c.trace[Len(c.trace)] = "log"
                  /\ c.pc \in {"return", "done"} => Len(c.logs) = 1)
    /\ [][\A p \in Callers :
            (call[p].logs # <<>> /\ started' = started)
            => /\ call'[p].posts = call[p].posts
               /\ call'[p].shortens = call[p].shortens
               /\ call'[p].logs = call[p].logs
               /\ call'[p].trace = call[p].trace
               /\ heap'[call[p].n] = heap[call[p].n]]_vars

\* C14 witness: a finished Notify that went through every step, the
\* shortening service included
C14_Witness ==
    \E p \in Callers :
        /\ Done(p) /\ call[p].entry = "Notify"
        /\ call[p].trace = <<"build", "stack", "encode", "post", "resolve", "log">>
        /\ call[p].shortens = 1

\* the fields of a Brake that no operation is meant to touch
FrameOf(b) ==
    <<b.config, b.projectID, b.apiKey, b.noticeURL,
      b.context.OS, b.context.Language, b.context.RootDirectory,
      b.context.Environment, b.context.Version, b.context.URL>>

UserOf(b) == <<b.context.UserID, b.context.UserName, b.context.UserEmail>>

SetterPCs == {"SetUserDetails", "SetUserName", "SetUserEmail"}

\* C15: whatever operations run, the Brake's endpoint URL, project id, api
\* key, configuration and the context fields other than the three user
\* fields keep their construction values; the user fields change only in a
\* step of SetUserDetails, and a finished SetUserDetails has set exactly
\* those three to its arguments.
C15_FrameOfBrake ==
    /\ [](/\ brake.config \in Configs
          /\ brake.projectID = <<"1234">> /\ brake.apiKey = <<"secret">>
          /\ brake.noticeURL = <<"http://airbrake.io/api/v3/projects/", "1234",
                                 "/notices?key=", "secret">>
          /\ brake.context.OS = <<"linux", "_", "amd64">>
          /\ brake.context.Language = <<"go1.1">>
          /\ brake.context.RootDirectory = <<"/srv/app">>
          /\ brake.context.Environment = <<"production">>
          /\ brake.context.Version = brake.config.AppVersion
          /\ brake.context.URL = brake.config.AppURL
          /\ started = 0 => UserOf(brake) = <<brake.config.UserID,
                                              brake.config.UserName,
                                              brake.config.UserEmail>>
          /\ \A p \in Callers :
                (Done(p) /\ call[p].entry = "SetUserDetails")
                => UserOf(brake) = call[p].user)
    /\ [][/\ FrameOf(brake') = FrameOf(brake)
          /\ UserOf(brake') # UserOf(brake)
               => \E p \in Callers : /\ call[p].entry = "SetUserDetails"
                                     /\ call[p].pc \in SetterPCs
                                     /\ call'[p].pc # call[p].pc]_vars

\* C15 witness: a SetUserDetails("7", "Ann", "ann@x") that ran as the second
\* operation has finished: the three user fields hold its arguments, the
\* configuration and the context URL are as built
C15_Witness ==
    \E p \in Callers :
        /\ started = 2 /\ Done(p) /\ call[p].entry = "SetUserDetails"
        /\ call[p].user = <<<<"7">>, <<"Ann">>, <<"ann@x">>>>
        /\ UserOf(brake) = <<<<"7">>, <<"Ann">>, <<"ann@x">>>>
        /\ brake.config.UserID = <<"42">>
        /\ brake.context.URL = <<"http://app/">>

====
